---- MODULE Spec2Model ----
(***************************************************************************)
(* A model of connection::Connection (src/src/lib.rs): a framing layer     *)
(* that sends and receives bincode-encoded values over a TCP stream.       *)
(*                                                                         *)
(* One Connection handle is modelled together with its environment: the    *)
(* peer, which puts bytes on the inbound half of the socket and may close  *)
(* it, and the outbound half of the socket, which takes the bytes the      *)
(* handle's BufWriter hands to it.  The value type T of read::<T> and      *)
(* write::<T> is Option<Option<bool>>, whose bincode encoding is one tag   *)
(* byte per Option (0 = None, 1 = Some) followed by one byte per bool      *)
(* (0 = false, 1 = true): encodings of one, two and three bytes.           *)
(***************************************************************************)
EXTENDS Naturals, Integers, Sequences, FiniteSets, TLC

\* ------------------------------------------------------------------ bounds
MaxStream == 5      \* bytes the peer writes to the socket, in all
MaxRaw == 1         \* raw bytes the peer writes outside any encoded value
MaxReads == 2       \* read calls on the handle
MaxWrites == 2      \* write calls on the handle
WriterCap == 3      \* capacity of the BufWriter's internal buffer
MaxCap == 2         \* largest initial capacity of the receive buffer that is tried

\* The capacity Connection::new gives the receive buffer.
DEFAULT_BUFFER_SIZE == 4096

\* A byte is 0, 1 or 2, where 2 stands for every byte that is neither a tag nor a bool.
Byte == {0, 1, 2}

\* ------------------------------------------------------------------ codec
\* The values of T = Option<Option<bool>>.
Values == {"None", "SomeNone", "SomeFalse", "SomeTrue"}

\* bincode::serialize(value)
Serialize(v) ==
    CASE v = "None" -> <<0>>
      [] v = "SomeNone" -> <<1, 0>>
      [] v = "SomeFalse" -> <<1, 1, 0>>
      [] v = "SomeTrue" -> <<1, 1, 1>>

DecOk(v, n) == [kind |-> "ok", value |-> v, used |-> n]
DecEof == [kind |-> "eof", value |-> "-", used |-> 0]
DecInvalid == [kind |-> "invalid", value |-> "-", used |-> 0]

\* A decoder that reads the bool with the opposite sense.
Deserialize_flipped(bs) ==
    IF Len(bs) = 0 THEN DecEof
    ELSE IF bs[1] = 0 THEN DecOk("None", 1)
    ELSE IF bs[1] # 1 THEN DecInvalid
    ELSE IF Len(bs) = 1 THEN DecEof
    ELSE IF bs[2] = 0 THEN DecOk("SomeNone", 2)
    ELSE IF bs[2] # 1 THEN DecInvalid
    ELSE IF Len(bs) = 2 THEN DecEof
    ELSE IF bs[3] = 0 THEN DecOk("SomeTrue", 3)
    ELSE IF bs[3] = 1 THEN DecOk("SomeFalse", 3)
    ELSE DecInvalid

\* bincode::deserialize_from(reader) for T, reading the bytes bs from the front:
\* the outer tag, then the inner tag, then the bool.  Running out of bytes is an
\* UnexpectedEof error, a tag or a bool outside {0, 1} is an invalid-encoding error.
Deserialize(bs) ==
    IF Len(bs) = 0 THEN DecEof
    ELSE IF bs[1] = 0 THEN DecOk("None", 1)
    ELSE IF bs[1] # 1 THEN DecInvalid
    ELSE IF Len(bs) = 1 THEN DecEof
    ELSE IF bs[2] = 0 THEN DecOk("SomeNone", 2)
    ELSE IF bs[2] # 1 THEN DecInvalid
    ELSE IF Len(bs) = 2 THEN DecEof
    ELSE IF bs[3] = 0 THEN DecOk("SomeFalse", 3)
    ELSE IF bs[3] = 1 THEN DecOk("SomeTrue", 3)
    ELSE DecInvalid

\* ------------------------------------------------------------------ state
VARIABLES
    buffer,      \* self.buffer: the receive buffer
    cap,         \* the capacity of self.buffer
    rpc,         \* position of the read call: "idle", "parse", "fill"
    inbound,     \* bytes the peer has written that no read_buf has returned yet
    peerClosed,  \* the peer has closed its write side
    sent,        \* history: the values the peer has sent, in order
    nraw,        \* history: number of raw bytes the peer has written
    results,     \* history: the outcome of every read call that has returned
    fills,       \* history: read_buf calls of the current read call that returned bytes
    lastRead,    \* history: byte count of the current read call's last read_buf; -1 before it
    wbuf,        \* self.stream: the BufWriter's internal buffer
    wire,        \* bytes the BufWriter has handed to the TcpStream
    wpc,         \* position of the write call: "idle", "write_all", "flush"
    wmsg,        \* buf of write: the encoding being written
    wops,        \* history: the stream operations of the current write call, with outcomes
    writes       \* history: the value and outcome of every write call that has returned

rvars == <<buffer, cap, rpc, inbound, peerClosed, sent, nraw, results, fills, lastRead>>
wvars == <<wbuf, wire, wpc, wmsg, wops, writes>>
vars == <<buffer, cap, rpc, inbound, peerClosed, sent, nraw, results, fills, lastRead,
          wbuf, wire, wpc, wmsg, wops, writes>>

\* Connection::new_with_capacity(stream, capacity): an empty buffer of that capacity
\* and a BufWriter around the stream.
new_with_capacity(capacity) ==
    /\ buffer = <<>>
    /\ cap = capacity
    /\ rpc = "idle"
    /\ inbound = <<>>
    /\ peerClosed = FALSE
    /\ sent = <<>>
    /\ nraw = 0
    /\ results = <<>>
    /\ fills = 0
    /\ lastRead = -1
    /\ wbuf = <<>>
    /\ wire = <<>>
    /\ wpc = "idle"
    /\ wmsg = <<>>
    /\ wops = <<>>
    /\ writes = <<>>

\* Connection::new: the default capacity.
Init == new_with_capacity(DEFAULT_BUFFER_SIZE)

\* A handle made with any of the small capacities.
CapInit == \E c \in 0..MaxCap : new_with_capacity(c)

\* ------------------------------------------------------------------ the peer
RECURSIVE Concat(_)
\* The encodings of the values vs, one after the other.
Concat(vs) == IF vs = <<>> THEN <<>> ELSE Serialize(Head(vs)) \o Concat(Tail(vs))

\* The number of bytes the peer has written to the socket.
Written == Len(Concat(sent)) + nraw

\* The peer's Connection::write of v: the encoding reaches the socket whole.
PeerSend(v) ==
    /\ ~peerClosed
    /\ Written + Len(Serialize(v)) <= MaxStream
    /\ inbound' = inbound \o Serialize(v)
    /\ sent' = Append(sent, v)
    /\ UNCHANGED <<buffer, cap, rpc, peerClosed, nraw, results, fills, lastRead>>
    /\ UNCHANGED wvars

\* A peer that writes one byte to the socket directly: a truncated or malformed message.
PeerSendRaw(b) ==
    /\ ~peerClosed
    /\ nraw < MaxRaw
    /\ Written + 1 <= MaxStream
    /\ inbound' = Append(inbound, b)
    /\ nraw' = nraw + 1
    /\ UNCHANGED <<buffer, cap, rpc, peerClosed, sent, results, fills, lastRead>>
    /\ UNCHANGED wvars

\* The peer closes its write side.
PeerClose ==
    /\ ~peerClosed
    /\ peerClosed' = TRUE
    /\ UNCHANGED <<buffer, cap, rpc, inbound, sent, nraw, results, fills, lastRead>>
    /\ UNCHANGED wvars

\* ------------------------------------------------------------------ read
Outcome(k, v, pre, used) ==
    [kind |-> k, value |-> v, pre |-> pre, used |-> used,
     fills |-> fills, lastRead |-> lastRead]

\* parse_value with a decode error turned into the default value of T.
parse_value_default(buf) ==
    LET r == Deserialize(buf) IN
    IF r.kind = "ok" THEN [some |-> TRUE, value |-> r.value, used |-> r.used]
    ELSE IF Len(buf) > 0 THEN [some |-> TRUE, value |-> "None", used |-> Len(buf)]
    ELSE [some |-> FALSE, value |-> "-", used |-> 0]

\* Connection::parse_value: Some(value) when the codec decodes one, None on every error.
parse_value(buf) ==
    LET r == Deserialize(buf) IN
    IF r.kind = "ok" THEN [some |-> TRUE, value |-> r.value, used |-> r.used]
    ELSE [some |-> FALSE, value |-> "-", used |-> 0]

\* The buffer cut down to the bytes the decode consumed.
BufferAfterParse_truncate(buf, used) == SubSeq(buf, 1, used)

\* The buffer left as it is after a successful parse.
BufferAfterParse_keep(buf, used) == buf

\* self.buffer.clear() after a successful parse.
BufferAfterParse(buf, used) == <<>>

\* read_to_buffer without the test of the byte count.
read_to_buffer_unchecked(n, buf) == "ok"

\* What read_to_buffer returns when read_buf returned n bytes into a buffer that
\* now holds buf.
read_to_buffer(n, buf) ==
    IF n = 0
    THEN IF Len(buf) = 0 THEN "ok" ELSE "reset"
    ELSE "ok"

\* A call of Connection::read begins: the first iteration of its loop.
ReadCall ==
    /\ rpc = "idle"
    /\ Len(results) < MaxReads
    /\ rpc' = "parse"
    /\ fills' = 0
    /\ lastRead' = -1
    /\ UNCHANGED <<buffer, cap, inbound, peerClosed, sent, nraw, results>>
    /\ UNCHANGED wvars

\* The parse attempt of one loop iteration (lines 225-228).
ReadParse ==
    /\ rpc = "parse"
    /\ LET p == parse_value(buffer) IN
       IF p.some
       THEN /\ buffer' = BufferAfterParse(buffer, p.used)
            /\ results' = Append(results, Outcome("value", p.value, buffer, p.used))
            /\ rpc' = "idle"
       ELSE /\ rpc' = "fill"
            /\ UNCHANGED <<buffer, results>>
    /\ UNCHANGED <<cap, inbound, peerClosed, sent, nraw, fills, lastRead>>
    /\ UNCHANGED wvars

\* read going back to the fill read, not to the parse attempt, after a fill read.
ReadAfterFill_refill(r) == IF r = "ok" THEN "fill" ELSE "idle"

\* How read continues when read_to_buffer returned r (line 230).
ReadAfterFill(r) == IF r = "ok" THEN "parse" ELSE "idle"

\* The capacity read_buf leaves the buffer with left as it was: a full buffer stays full.
reserve_never(c, len) == c

\* The capacity of the buffer when read_buf has asked it for room to write into: a
\* BytesMut that is full reserves 64 more bytes, any other is left as it is.
reserve(c, len) == IF c = len THEN len + 64 ELSE c

\* The room read_buf has to read into.
Spare == reserve(cap, Len(buffer)) - Len(buffer)

\* read_buf returns n >= 1 of the bytes in flight, as many as there is room for,
\* appended to the buffer.
ReadFillData(n) ==
    /\ rpc = "fill"
    /\ n \in 1..Len(inbound)
    /\ n <= Spare
    /\ cap' = reserve(cap, Len(buffer))
    /\ buffer' = buffer \o SubSeq(inbound, 1, n)
    /\ inbound' = SubSeq(inbound, n + 1, Len(inbound))
    /\ fills' = fills + 1
    /\ lastRead' = n
    /\ rpc' = ReadAfterFill(read_to_buffer(n, buffer'))
    /\ UNCHANGED <<peerClosed, sent, nraw, results>>
    /\ UNCHANGED wvars

\* The buffer cleared when ConnectionReset is returned.
BufferAfterReset_clear(buf) == <<>>

\* The buffer when read_to_buffer returns ConnectionReset: the error is returned
\* with the buffer as it is (lines 256-258).
BufferAfterReset(buf) == buf

\* Whether read_buf returns 0: it has no room to read into, or the peer has closed
\* and nothing is in flight.
ReadsZero == IF Spare = 0 THEN TRUE ELSE peerClosed /\ inbound = <<>>

\* read_buf returns 0.
ReadFillEof ==
    /\ rpc = "fill"
    /\ ReadsZero
    /\ lastRead' = 0
    /\ LET r == read_to_buffer(0, buffer) IN
       /\ rpc' = ReadAfterFill(r)
       /\ results' = IF r = "ok" THEN results
                     ELSE Append(results, [Outcome("reset", "-", buffer, 0) EXCEPT !.lastRead = 0])
       /\ buffer' = IF r = "ok" THEN buffer ELSE BufferAfterReset(buffer)
    /\ UNCHANGED <<cap, inbound, peerClosed, sent, nraw, fills>>
    /\ UNCHANGED wvars

\* read_buf fails: the ? of line 252 returns IoError from read_to_buffer and from read.
ReadFillErr ==
    /\ rpc = "fill"
    /\ results' = Append(results, Outcome("io", "-", buffer, 0))
    /\ rpc' = "idle"
    /\ UNCHANGED <<buffer, cap, inbound, peerClosed, sent, nraw, fills, lastRead>>
    /\ UNCHANGED wvars

RecvNext ==
    \/ \E v \in Values : PeerSend(v)
    \/ \E b \in Byte : PeerSendRaw(b)
    \/ PeerClose
    \/ ReadCall
    \/ ReadParse
    \/ \E n \in 1..MaxStream : ReadFillData(n)
    \/ ReadFillEof
    \/ ReadFillErr

\* ------------------------------------------------------------------ write
\* The bytes of a write_all that go to the socket at once: the BufWriter first empties
\* its buffer when the new bytes do not fit behind what it holds, and passes bytes
\* that are as long as its capacity straight through.
MustFlushFirst(wb, msg) == Len(wb) + Len(msg) > WriterCap
WritesThrough(msg) == Len(msg) >= WriterCap
ToSocket(wb, msg) ==
    (IF MustFlushFirst(wb, msg) THEN wb ELSE <<>>) \o (IF WritesThrough(msg) THEN msg ELSE <<>>)

\* self.stream.write_all(buf) succeeding: the BufWriter's buffer and the socket afterwards.
write_all(wb, w, msg) ==
    [wbuf |-> (IF MustFlushFirst(wb, msg) THEN <<>> ELSE wb)
                 \o (IF WritesThrough(msg) THEN <<>> ELSE msg),
     wire |-> w \o ToSocket(wb, msg)]

\* flush left out: the bytes stay in the BufWriter.
flush_forgotten(wb, w) == [wbuf |-> wb, wire |-> w]

\* self.stream.flush() succeeding: everything buffered is handed to the socket.
flush(wb, w) == [wbuf |-> <<>>, wire |-> w \o wb]

\* write_to_stream with the result of write_all dropped instead of returned.
write_to_stream_unchecked(pc, ok) ==
    IF pc = "write_all" THEN "flush"
    ELSE IF ok THEN "ok"
    ELSE "err"

\* write_to_stream after a stream operation at position pc: the ? returns the
\* error at once; a successful write_all is followed by flush, a successful flush by Ok(()).
write_to_stream(pc, ok) ==
    IF ~ok THEN "err"
    ELSE IF pc = "write_all" THEN "flush"
    ELSE "ok"

\* The step of write that follows a stream operation with outcome ok.
WriteStep(op, ok) ==
    LET n == write_to_stream(wpc, ok) IN
    /\ wops' = Append(wops, [op |-> op, ok |-> ok])
    /\ wpc' = IF n = "flush" THEN "flush" ELSE "idle"
    /\ writes' = IF n = "flush" THEN writes
                 ELSE Append(writes, [bytes |-> wmsg, result |-> IF n = "ok" THEN "Ok" ELSE "IoError"])

\* A call of Connection::write(v) begins: v is serialized (line 195).
WriteCall(v) ==
    /\ wpc = "idle"
    /\ Len(writes) < MaxWrites
    /\ wmsg' = Serialize(v)
    /\ wpc' = "write_all"
    /\ wops' = <<>>
    /\ UNCHANGED <<wbuf, wire, writes>>
    /\ UNCHANGED rvars

\* write_all staging the bytes in the receive buffer on their way to the BufWriter.
WriteAllOk_shared ==
    /\ wpc = "write_all"
    /\ LET r == write_all(wbuf, wire, wmsg) IN
       /\ wbuf' = r.wbuf
       /\ wire' = r.wire
    /\ WriteStep("write_all", TRUE)
    /\ buffer' = buffer \o wmsg
    /\ UNCHANGED wmsg
    /\ UNCHANGED <<cap, rpc, inbound, peerClosed, sent, nraw, results, fills, lastRead>>

\* write_all succeeds (line 245).
WriteAllOk ==
    /\ wpc = "write_all"
    /\ LET r == write_all(wbuf, wire, wmsg) IN
       /\ wbuf' = r.wbuf
       /\ wire' = r.wire
    /\ WriteStep("write_all", TRUE)
    /\ UNCHANGED wmsg
    /\ UNCHANGED rvars

\* write_all fails after the socket has taken k of the bytes it was to take.
WriteAllErr(k) ==
    /\ wpc = "write_all"
    /\ k < Len(ToSocket(wbuf, wmsg))
    /\ wire' = wire \o SubSeq(ToSocket(wbuf, wmsg), 1, k)
    /\ wbuf' = IF MustFlushFirst(wbuf, wmsg)
               THEN SubSeq(wbuf, k + 1, Len(wbuf))
               ELSE wbuf
    /\ WriteStep("write_all", FALSE)
    /\ UNCHANGED wmsg
    /\ UNCHANGED rvars

\* flush succeeds (line 246).
FlushOk ==
    /\ wpc = "flush"
    /\ LET r == flush(wbuf, wire) IN
       /\ wbuf' = r.wbuf
       /\ wire' = r.wire
    /\ WriteStep("flush", TRUE)
    /\ UNCHANGED wmsg
    /\ UNCHANGED rvars

\* flush fails after the socket has taken k of the buffered bytes, which leave the buffer.
FlushErr(k) ==
    /\ wpc = "flush"
    /\ k < Len(wbuf)
    /\ wire' = wire \o SubSeq(wbuf, 1, k)
    /\ wbuf' = SubSeq(wbuf, k + 1, Len(wbuf))
    /\ WriteStep("flush", FALSE)
    /\ UNCHANGED wmsg
    /\ UNCHANGED rvars

SendNext ==
    \/ \E v \in Values : WriteCall(v)
    \/ WriteAllOk
    \/ \E k \in 0..(2 * WriterCap) : WriteAllErr(k)
    \/ FlushOk
    \/ \E k \in 0..WriterCap : FlushErr(k)

\* ------------------------------------------------------------------ specifications
\* The read path with the peer; the write path stays as constructed.
RecvSpec == Init /\ [][RecvNext]_vars

\* The write path; the read path stays as constructed.
SendSpec == Init /\ [][SendNext]_vars

\* One read call and one write call on the same handle, their steps interleaved in
\* every order, with the peer.
DuplexNext ==
    \/ \E v \in Values : PeerSend(v)
    \/ \E b \in Byte : PeerSendRaw(b)
    \/ PeerClose
    \/ results = <<>> /\ ReadCall
    \/ ReadParse
    \/ \E n \in 1..MaxStream : ReadFillData(n)
    \/ ReadFillEof
    \/ ReadFillErr
    \/ \E v \in Values : writes = <<>> /\ WriteCall(v)
    \/ WriteAllOk
    \/ \E k \in 0..(2 * WriterCap) : WriteAllErr(k)
    \/ FlushOk
    \/ \E k \in 0..WriterCap : FlushErr(k)

DuplexSpec == Init /\ [][DuplexNext]_vars

RECURSIVE ValuesOf(_)
\* The values of the read calls among rs that returned one, in call order.
ValuesOf(rs) ==
    IF rs = <<>> THEN <<>>
    ELSE (IF Head(rs).kind = "value" THEN <<Head(rs).value>> ELSE <<>>) \o ValuesOf(Tail(rs))

\* A peer in lock step: it sends a value only when read calls have returned every
\* value it sent before.
LockPeerSend(v) ==
    /\ Len(ValuesOf(results)) = Len(sent)
    /\ PeerSend(v)

\* The read path with a peer in lock step that writes encoded values only.
LockNext ==
    \/ \E v \in Values : LockPeerSend(v)
    \/ PeerClose
    \/ ReadCall
    \/ ReadParse
    \/ \E n \in 1..MaxStream : ReadFillData(n)
    \/ ReadFillEof
    \/ ReadFillErr

LockSpec == Init /\ [][LockNext]_vars

\* The read path of a handle made with a small capacity, and a peer that writes
\* encoded values only.
CapNext ==
    \/ \E v \in Values : PeerSend(v)
    \/ PeerClose
    \/ ReadCall
    \/ ReadParse
    \/ \E n \in 1..MaxStream : ReadFillData(n)
    \/ ReadFillEof
    \/ ReadFillErr

CapSpec == CapInit /\ [][CapNext]_vars

Next == RecvNext \/ SendNext

Spec == Init /\ [][Next]_vars

\* ------------------------------------------------------------------ properties
IsPrefix(a, b) == Len(a) <= Len(b) /\ a = SubSeq(b, 1, Len(a))
IsStrictPrefix(a, b) == Len(a) < Len(b) /\ a = SubSeq(b, 1, Len(a))
Last(s) == s[Len(s)]
Drop(s, n) == SubSeq(s, n + 1, Len(s))

RECURSIVE Flatten(_)
\* The byte sequences of the write records ws, one after the other.
Flatten(ws) == IF ws = <<>> THEN <<>> ELSE Head(ws).bytes \o Flatten(Tail(ws))

AllOk(ws) == \A i \in 1..Len(ws) : ws[i].result = "Ok"

\* C1 (round trip): when the peer has written only encoded values, the first read
\* call that returns without an I/O error returns Ok(Some(v)) for the first value v
\* the peer sent, whether or not the bytes were queued before the call began.
C1_RoundTrip ==
    (nraw = 0 /\ Len(results) >= 1 /\ results[1].kind # "io")
        => /\ Len(sent) >= 1
           /\ results[1].kind = "value"
           /\ results[1].value = sent[1]

\* C1 witness: one three-byte value was sent, its bytes were all in flight before the
\* read call's only fill read, and the call returned it.
C1_Witness ==
    /\ sent = <<"SomeTrue">>
    /\ nraw = 0
    /\ Len(results) = 1
    /\ results[1].kind = "value"
    /\ results[1].value = "SomeTrue"
    /\ results[1].lastRead = 3
    /\ results[1].fills = 1

\* The peer has sent two values and nothing else, one fill read delivered the bytes
\* of both, and the first read call has returned.
Pipelined ==
    /\ nraw = 0
    /\ Len(sent) = 2
    /\ Len(results) >= 1
    /\ results[1].kind = "value"
    /\ results[1].fills = 1
    /\ results[1].pre = Concat(sent)

\* C2 (pipelining): when one fill read delivered two values, the first read call
\* returns the first and the second read call the second: after the first call has
\* returned, the second value is still held for the second call, which returns it.
C2_PipelinedInOrder ==
    Pipelined =>
        /\ results[1].value = sent[1]
        /\ IF Len(results) = 1
           THEN buffer = Serialize(sent[2])
           ELSE \/ results[2].kind = "io"
                \/ results[2].kind = "value" /\ results[2].value = sent[2]

\* C3 (orderly close): when a fill read has returned zero bytes into an empty buffer,
\* the read call has returned Ok(None).
C3_OrderlyClose ==
    (lastRead = 0 /\ buffer = <<>>)
        => /\ rpc = "idle"
           /\ results # <<>>
           /\ Last(results).kind = "none"

\* C4 (reset mid-message): when a fill read has returned zero bytes into a non-empty
\* buffer, the read call has returned ConnectionReset; and ConnectionReset is
\* returned only then, with a buffer that holds no complete value.
C4_ResetMidMessage ==
    /\ (lastRead = 0 /\ buffer # <<>>)
           => /\ rpc = "idle"
              /\ results # <<>>
              /\ Last(results).kind = "reset"
              /\ Last(results).pre = buffer
    /\ \A i \in 1..Len(results) :
           results[i].kind = "reset"
               => /\ results[i].pre # <<>>
                  /\ results[i].lastRead = 0
                  /\ Deserialize(results[i].pre).kind # "ok"

\* C4 witness: the peer wrote a strict prefix of an encoded value and closed, and the
\* read call failed with ConnectionReset.
C4_Witness ==
    /\ peerClosed
    /\ sent = <<>>
    /\ rpc = "idle"
    /\ Len(results) = 1
    /\ results[1].kind = "reset"
    /\ IsStrictPrefix(results[1].pre, Serialize("SomeTrue"))
    /\ buffer = results[1].pre

\* C5 (partial delivery): when the peer has written only encoded values, no parse
\* attempt on a strict prefix of the first value's encoding returns a value, and the
\* first read call returns that value, decoded from exactly its bytes, after at
\* least one and at most as many fill reads as the encoding has bytes.
C5_PartialDelivery ==
    /\ (nraw = 0 /\ sent # <<>> /\ results = <<>> /\ IsStrictPrefix(buffer, Serialize(sent[1])))
           => ~parse_value(buffer).some
    /\ (nraw = 0 /\ Len(results) >= 1 /\ results[1].kind = "value")
           => /\ results[1].value = sent[1]
              /\ results[1].used = Len(Serialize(sent[1]))
              /\ IsPrefix(Serialize(sent[1]), results[1].pre)
              /\ results[1].fills \in 1..Len(Serialize(sent[1]))

\* C5 witness: a three-byte encoding arrived one byte per fill read and the read call
\* returned its value after three fill reads.
C5_Witness ==
    /\ sent = <<"SomeFalse">>
    /\ nraw = 0
    /\ Len(results) = 1
    /\ results[1].kind = "value"
    /\ results[1].value = "SomeFalse"
    /\ results[1].fills = 3
    /\ results[1].pre = Serialize("SomeFalse")

\* C6 (malformed data): a read call never goes on to a fill read while the front of
\* the buffer is malformed, and a call that has ended with malformed bytes at the
\* front of the buffer has failed with the decoding error.
C6_MalformedFails ==
    Deserialize(buffer).kind = "invalid"
        => /\ rpc # "fill"
           /\ (rpc = "idle" /\ results # <<>>) => Last(results).kind = "decode"

\* C7 (send flushes): when a write call has returned Ok, the BufWriter holds no byte,
\* and when every write call so far has returned Ok, the bytes handed to the socket
\* are the encodings of the written values in call order.
C7_SendFlushed ==
    /\ (wpc = "idle" /\ writes # <<>> /\ Last(writes).result = "Ok") => wbuf = <<>>
    /\ (wpc = "idle" /\ AllOk(writes)) => wire = Flatten(writes)

\* C7 witness: two write calls have returned Ok, the first of a value that the
\* BufWriter buffers rather than writes through.
C7_Witness ==
    /\ wpc = "idle"
    /\ Len(writes) = 2
    /\ AllOk(writes)
    /\ writes[1].bytes = Serialize("SomeNone")
    /\ writes[2].bytes = Serialize("SomeTrue")
    /\ wire = Serialize("SomeNone") \o Serialize("SomeTrue")

\* C8 (send fails fast): within a write call no stream operation follows a failed
\* one and none is repeated; a call whose write_all or flush failed returns IoError,
\* and a call returns Ok only after write_all and then flush succeeded.
C8_SendFailsFast ==
    /\ Len(wops) <= 2
    /\ \A i \in 1..(Len(wops) - 1) : wops[i].ok
    /\ (wops # <<>> /\ ~Last(wops).ok)
           => /\ wpc = "idle"
              /\ writes # <<>>
              /\ Last(writes).result = "IoError"
    /\ (wpc = "idle" /\ writes # <<>> /\ Last(writes).result = "Ok")
           => wops = <<[op |-> "write_all", ok |-> TRUE], [op |-> "flush", ok |-> TRUE]>>

\* C8 witness: write_all succeeded, flush failed, and the call returned IoError
\* without a further operation.
C8_Witness ==
    /\ wpc = "idle"
    /\ wops = <<[op |-> "write_all", ok |-> TRUE], [op |-> "flush", ok |-> FALSE]>>
    /\ Last(writes).result = "IoError"

\* C9 (drain on decode success): after a read call has returned a value, the buffer
\* holds the bytes it held at decode time less the bytes that decode consumed.
C9_DrainConsumedOnly ==
    (rpc = "idle" /\ results # <<>> /\ Last(results).kind = "value")
        => buffer = Drop(Last(results).pre, Last(results).used)

\* C10 (termination after peer close): a fill read that returns zero bytes ends the
\* read call.
C10_ZeroReadEndsCall ==
    [][(rpc = "fill" /\ peerClosed /\ inbound = <<>> /\ lastRead' = 0) => rpc' = "idle"]_vars

\* C11 (receive-buffer invariant): every step leaves the buffer as it is, clears it
\* entirely, or appends to its tail the bytes one fill read took from the socket.
\* A parse attempt that yields no value leaves it as it is; it is cleared only by a
\* read call returning a value; a read call that returns IoError or ConnectionReset
\* leaves it as it is.
C11_BufferAppendOrClear ==
    [][/\ \/ buffer' = buffer
          \/ buffer' = <<>>
          \/ /\ rpc = "fill"
             /\ \E n \in 1..Len(inbound) :
                    /\ buffer' = buffer \o SubSeq(inbound, 1, n)
                    /\ inbound' = Drop(inbound, n)
       /\ (rpc = "parse" /\ rpc' = "fill") => buffer' = buffer
       /\ (buffer' = <<>> /\ buffer # <<>>)
              => /\ rpc = "parse"
                 /\ Len(results') = Len(results) + 1
                 /\ Last(results').kind = "value"
       /\ (Len(results') > Len(results) /\ Last(results').kind \in {"io", "reset"})
              => buffer' = buffer]_vars

\* C11 witness: a first read call gathered a value over two fill reads and cleared
\* the buffer; a second call then failed with ConnectionReset and left its bytes.
C11_Witness ==
    /\ Len(results) = 2
    /\ results[1].kind = "value"
    /\ results[1].fills = 2
    /\ results[2].kind = "reset"
    /\ buffer = results[2].pre
    /\ buffer # <<>>

\* C12 (one writer, one reader): with one read call and one write call interleaved
\* step by step, a step of the write path leaves the receive buffer and the rest of
\* the read path as they are, a step of the read path or of the peer leaves the
\* BufWriter and the rest of the write path as they are, and the outcomes are those
\* of the calls run alone: the read call returns the first value the peer sent, the
\* socket holds a prefix of the written encoding, and all of it, with the BufWriter
\* empty, once write has returned Ok.
C12_ReaderWriterIndependent ==
    [][/\ wvars' # wvars => (buffer' = buffer /\ rvars' = rvars)
       /\ rvars' # rvars => (wbuf' = wbuf /\ wvars' = wvars)
       /\ (nraw' = 0 /\ results' # <<>> /\ results'[1].kind # "io")
              => (sent' # <<>> /\ results'[1].kind = "value" /\ results'[1].value = sent'[1])
       /\ IsPrefix(wire', wmsg')
       /\ (wpc' = "idle" /\ writes' # <<>> /\ writes'[1].result = "Ok")
              => (wire' = writes'[1].bytes /\ wbuf' = <<>>)]_vars

\* C12 witness: the write call stands between write_all and flush with its bytes in
\* the BufWriter while the read call stands between two fill reads with a fragment in
\* the receive buffer.
C12_Witness ==
    /\ wpc = "flush"
    /\ wbuf = Serialize("SomeNone")
    /\ rpc = "fill"
    /\ fills = 1
    /\ buffer = <<1, 1>>

\* C13 (parse before fill): a read call begins with a parse attempt; it never stands
\* at a fill read while the front of the buffer holds a complete value; and when it
\* returns a value after fill reads, the buffer held no complete value before the
\* last of them.
C13_ParseBeforeFill ==
    [][/\ (rpc = "idle" /\ rpc' # "idle") => rpc' = "parse"
       /\ rpc' = "fill" => Deserialize(buffer').kind # "ok"
       /\ (Len(results') > Len(results) /\ Last(results').kind = "value")
              => LET o == Last(results') IN
                 /\ rpc = "parse"
                 /\ Deserialize(o.pre).kind = "ok"
                 /\ o.fills > 0
                        => Deserialize(SubSeq(o.pre, 1, Len(o.pre) - o.lastRead)).kind # "ok"]_vars

\* C13 witness: a read call returned a value at the parse attempt that followed the
\* second of two fill reads, the first of which had left the value incomplete.
C13_Witness ==
    /\ rpc = "idle"
    /\ Len(results) = 1
    /\ results[1].kind = "value"
    /\ results[1].fills = 2
    /\ results[1].lastRead = 1
    /\ results[1].pre = Serialize("SomeTrue")

\* C14 (capacity is a hint): whatever capacity the handle was made with, the buffer
\* grows past it: a fill read returns zero bytes only when the peer has closed and
\* nothing is in flight, never because the buffer is full, and the first read call
\* that does not hit an I/O error returns the first value the peer sent, also when
\* its encoding is longer than the capacity.
C14_CapacityIsHint ==
    /\ Len(buffer) <= cap
    /\ lastRead = 0 => (peerClosed /\ inbound = <<>>)
    /\ rpc = "fill" => Spare > 0
    /\ (Len(results) >= 1 /\ results[1].kind # "io")
           => /\ Len(sent) >= 1
              /\ results[1].kind = "value"
              /\ results[1].value = sent[1]

\* C14 witness: a handle made with capacity 1 returned a value of three bytes: the
\* first fill read filled the buffer, which then grew for the second.
C14_Witness ==
    /\ cap = 1 + 64
    /\ Len(results) = 1
    /\ results[1].kind = "value"
    /\ results[1].value = "SomeTrue"
    /\ results[1].fills = 2
    /\ results[1].pre = Serialize("SomeTrue")

\* C15 (lock step): when the peer sends each value only after the read call for the
\* one before has returned, the buffer holds exactly the bytes of one value at every
\* successful decode, and the n-th read call that returns a value returns the n-th
\* value sent: none is lost, repeated or out of order, and no call reports a reset.
C15_LockStep ==
    /\ Len(ValuesOf(results)) <= Len(sent)
    /\ ValuesOf(results) = SubSeq(sent, 1, Len(ValuesOf(results)))
    /\ \A i \in 1..Len(results) :
           /\ results[i].kind \in {"value", "io"}
           /\ results[i].kind = "value" => results[i].pre = Serialize(results[i].value)

\* C15 witness: two values sent in lock step, the first in three fragments, were
\* returned by two read calls in order.
C15_Witness ==
    /\ sent = <<"SomeTrue", "SomeNone">>
    /\ Len(results) = 2
    /\ ValuesOf(results) = sent
    /\ results[1].fills = 3

RECURSIVE IsSubseq(_, _)
\* Whether a can be had from b by leaving elements out.
IsSubseq(a, b) ==
    IF a = <<>> THEN TRUE
    ELSE IF b = <<>> THEN FALSE
    ELSE IF Head(a) = Head(b) THEN IsSubseq(Tail(a), Tail(b))
    ELSE IsSubseq(a, Tail(b))

\* C16 (integrity under pipelining with fragmentation): when the peer has written
\* encoded values only, the values the read calls have returned are, in order, among
\* the values sent: each is a value the peer sent, none decoded from the middle or
\* the tail of an encoding.
C16_ReturnedAreSent ==
    nraw = 0 => IsSubseq(ValuesOf(results), sent)

\* C17 (sticky reset): after a read call has failed with ConnectionReset, the buffer
\* holds the same non-empty bytes, which decode to no value, and every later read
\* call fails: with ConnectionReset, or with IoError when read_buf itself fails; none
\* returns a value or "no value".
C17_ResetIsSticky ==
    \A i \in 1..Len(results) :
        results[i].kind = "reset"
            => /\ buffer = results[i].pre
               /\ buffer # <<>>
               /\ Deserialize(buffer).kind # "ok"
               /\ \A j \in (i + 1)..Len(results) :
                      /\ results[j].kind \in {"reset", "io"}
                      /\ results[j].pre = results[i].pre
                      /\ results[j].kind = "reset" <=> results[j].lastRead = 0

\* C17 witness: two read calls in a row failed with ConnectionReset over the same
\* truncated bytes.
C17_Witness ==
    /\ Len(results) = 2
    /\ results[1].kind = "reset"
    /\ results[2].kind = "reset"
    /\ buffer = <<1>>
====
